---- MODULE Spec2Model ----
\* Model of gps/verify/lock.go: LockSatisfiesInputs and the LockSatisfaction
\* accessors.  Import paths and project roots are strings, modelled as
\* sequences of one-character strings so that radix-tree prefix matching is
\* computed on the raw characters, as the code does.  Go maps are iterated in
\* an unspecified order: every loop over a map takes its order as a parameter
\* and the calling action chooses it nondeterministically.
EXTENDS Integers, Sequences, FiniteSets, TLC

VARIABLES l, m, rpt, ret, prev

vars == <<l, m, rpt, ret, prev>>

----------------------------------------------------------------------------
\* Bounds of the model.

\* longest list of locked projects in a lock
MaxProjects == 2
\* longest InputImports list in a lock
MaxInputImports == 2

----------------------------------------------------------------------------
\* The strings the inputs are drawn from.

\* import path "ab"
P_ab == <<"a", "b">>
\* import path / project root "a/b"
P_a_b == <<"a", "/", "b">>
\* import path "b"
P_b == <<"b">>
\* project root "a"
R_a == <<"a">>

Roots == {R_a, P_a_b}
\* the roots the manifests give an override for
OverrideRoots == {R_a}
Versions == {1, 2}
\* a constraint is the set of versions it allows: "=1" and the constraint
\* that allows no version
Constraints == {{1}, {}}
ReachPaths == {P_ab, P_a_b}
RequiredPaths == {P_a_b}
LockPaths == {P_a_b, P_b}

----------------------------------------------------------------------------
\* Helpers for Go values.

\* all sequences over S of length at most n
SeqUpTo(S, n) == UNION {[1..k -> S] : k \in 0..n}

\* all partial maps from K to V
PartialMaps(K, V) == UNION {[D -> V] : D \in SUBSET K}

\* the iteration orders of a Go map whose key set is S
Orders(S) == {o \in [1..Cardinality(S) -> S] : \A x \in S : \E i \in DOMAIN o : o[i] = x}

EmptyMap == [x \in {} |-> x]

\* m[k] = v on a Go map
MapPut(mp, k, v) == [x \in (DOMAIN mp) \cup {k} |-> IF x = k THEN v ELSE mp[x]]

\* the elements of a slice, as a set
Elems(s) == {s[i] : i \in DOMAIN s}

\* strings.HasPrefix on raw characters
HasPrefix(s, p) == Len(p) <= Len(s) /\ SubSeq(s, 1, Len(p)) = p

----------------------------------------------------------------------------
\* Values of the program.

\* a nil gps.LockWithImports / gps.RootManifest interface value
Nil == [isnil |-> TRUE]

\* gps.Constraint.Matches: the constraint allows the version
Matches(c, v) == v \in c

ConstraintMismatch(c, v) == [C |-> c, V |-> v]

\* lockUnsatisfy
missingFromLock == 0
inAdditionToLock == 1

\* NoLockResult with the flag left at its zero value
NoLockResultUnflagged ==
  [nolock |-> FALSE, missingPkgs |-> <<>>, excessPkgs |-> <<>>,
   badovr |-> EmptyMap, badconstraint |-> EmptyMap]

\* LockSatisfaction{nolock: true}: nil slices and nil maps have length 0
NoLockResult ==
  [nolock |-> TRUE, missingPkgs |-> <<>>, excessPkgs |-> <<>>,
   badovr |-> EmptyMap, badconstraint |-> EmptyMap]

\* LockSatisfaction{badovr: make(...), badconstraint: make(...)}
NewLockSatisfaction ==
  [nolock |-> FALSE, missingPkgs |-> <<>>, excessPkgs |-> <<>>,
   badovr |-> EmptyMap, badconstraint |-> EmptyMap]

----------------------------------------------------------------------------
\* Accessors of LockSatisfaction.

\* Passed without the check of badconstraint
PassedIgnoringConstraints(ls) ==
  IF ls.nolock THEN FALSE
  ELSE IF Len(ls.missingPkgs) > 0 THEN FALSE
  ELSE IF Len(ls.excessPkgs) > 0 THEN FALSE
  ELSE IF Cardinality(DOMAIN ls.badovr) > 0 THEN FALSE
  ELSE TRUE

Passed(ls) ==
  IF ls.nolock THEN FALSE
  ELSE IF Len(ls.missingPkgs) > 0 THEN FALSE
  ELSE IF Len(ls.excessPkgs) > 0 THEN FALSE
  ELSE IF Cardinality(DOMAIN ls.badovr) > 0 THEN FALSE
  ELSE IF Cardinality(DOMAIN ls.badconstraint) > 0 THEN FALSE
  ELSE TRUE

MissingImports(ls) == ls.missingPkgs

ExcessImports(ls) == ls.excessPkgs

UnmatchedOverrides(ls) == ls.badovr

UnmatchedConstraints(ls) == ls.badconstraint

----------------------------------------------------------------------------
\* findEffectualConstraints.

\* radix.Tree.LongestPrefix on a tree holding the keys xt: the longest key
\* that is a prefix of s, character by character
LongestPrefix(xt, s) ==
  LET cand == {k \in xt : HasPrefix(s, k)}
  IN IF cand = {} THEN [has |-> FALSE, root |-> <<>>]
     ELSE [has |-> TRUE,
           root |-> CHOOSE k \in cand : \A k2 \in cand : Len(k2) <= Len(k)]

\* EffLoop marking the import path instead of the root found for it
RECURSIVE EffLoopMarksImport(_, _, _, _)
EffLoopMarksImport(xt, order, i, eff) ==
  IF i > Len(order) THEN eff
  ELSE LET lp == LongestPrefix(xt, order[i])
       IN EffLoopMarksImport(xt, order, i + 1,
                             IF lp.has THEN eff \cup {order[i]} ELSE eff)

\* the loop over imports, in iteration order `order`
RECURSIVE EffLoop(_, _, _, _)
EffLoop(xt, order, i, eff) ==
  IF i > Len(order) THEN eff
  ELSE LET lp == LongestPrefix(xt, order[i])
       IN EffLoop(xt, order, i + 1, IF lp.has THEN eff \cup {lp.root} ELSE eff)

\* xt receives every key of m.DependencyConstraints(); the tree's content does
\* not depend on the insertion order.  The result is the set of keys of eff.
findEffectualConstraints(mf, order) ==
  EffLoop(DOMAIN mf.constraints, order, 1, {})

----------------------------------------------------------------------------
\* LockSatisfiesInputs.

\* for ip := range ininputs { ... }
RECURSIVE DiffInputs(_, _, _, _)
DiffInputs(order, i, inlock, pkgDiff) ==
  IF i > Len(order) THEN [inlock |-> inlock, pkgDiff |-> pkgDiff]
  ELSE LET ip == order[i]
       IN IF ip \notin inlock
          THEN DiffInputs(order, i + 1, inlock, MapPut(pkgDiff, ip, missingFromLock))
          ELSE DiffInputs(order, i + 1, inlock \ {ip}, pkgDiff)

\* DiffLock recording its paths with the other loop's tag
RECURSIVE DiffLockAsMissing(_, _, _, _)
DiffLockAsMissing(order, i, ininputs, pkgDiff) ==
  IF i > Len(order) THEN pkgDiff
  ELSE LET ip == order[i]
       IN IF ip \notin ininputs
          THEN DiffLockAsMissing(order, i + 1, ininputs, MapPut(pkgDiff, ip, missingFromLock))
          ELSE DiffLockAsMissing(order, i + 1, ininputs, pkgDiff)

\* for ip := range inlock { ... }
RECURSIVE DiffLock(_, _, _, _)
DiffLock(order, i, ininputs, pkgDiff) ==
  IF i > Len(order) THEN pkgDiff
  ELSE LET ip == order[i]
       IN IF ip \notin ininputs
          THEN DiffLock(order, i + 1, ininputs, MapPut(pkgDiff, ip, inAdditionToLock))
          ELSE DiffLock(order, i + 1, ininputs, pkgDiff)

\* Collect assigning a one-element slice instead of appending
RECURSIVE CollectOverwriting(_, _, _, _)
CollectOverwriting(order, i, pkgDiff, lsat) ==
  IF i > Len(order) THEN lsat
  ELSE LET ip == order[i]
       IN IF pkgDiff[ip] = missingFromLock
          THEN CollectOverwriting(order, i + 1, pkgDiff,
                                  [lsat EXCEPT !.missingPkgs = <<ip>>])
          ELSE CollectOverwriting(order, i + 1, pkgDiff,
                                  [lsat EXCEPT !.excessPkgs = <<ip>>])

\* for ip, typ := range pkgDiff { ... }
RECURSIVE Collect(_, _, _, _)
Collect(order, i, pkgDiff, lsat) ==
  IF i > Len(order) THEN lsat
  ELSE LET ip == order[i]
       IN IF pkgDiff[ip] = missingFromLock
          THEN Collect(order, i + 1, pkgDiff,
                       [lsat EXCEPT !.missingPkgs = Append(@, ip)])
          ELSE Collect(order, i + 1, pkgDiff,
                       [lsat EXCEPT !.excessPkgs = Append(@, ip)])

\* CheckProject without the continue: a matching override falls through to
\* the constraint check
CheckProjectNoContinue(lp, ovr, constraints, eff, lsat) ==
  LET pr == lp.root
  IN IF pr \in DOMAIN ovr /\ ~Matches(ovr[pr], lp.version)
     THEN [lsat EXCEPT !.badovr = MapPut(@, pr, ConstraintMismatch(ovr[pr], lp.version))]
     ELSE IF pr \in DOMAIN constraints /\ pr \in eff /\ ~Matches(constraints[pr], lp.version)
          THEN [lsat EXCEPT !.badconstraint =
                   MapPut(@, pr, ConstraintMismatch(constraints[pr], lp.version))]
          ELSE lsat

\* CheckProject asking for an effectual root before the override check too
CheckProjectEffOverride(lp, ovr, constraints, eff, lsat) ==
  LET pr == lp.root
  IN IF pr \in DOMAIN ovr
     THEN IF pr \in eff /\ ~Matches(ovr[pr], lp.version)
          THEN [lsat EXCEPT !.badovr = MapPut(@, pr, ConstraintMismatch(ovr[pr], lp.version))]
          ELSE lsat
     ELSE IF pr \in DOMAIN constraints /\ pr \in eff /\ ~Matches(constraints[pr], lp.version)
          THEN [lsat EXCEPT !.badconstraint =
                   MapPut(@, pr, ConstraintMismatch(constraints[pr], lp.version))]
          ELSE lsat

\* delete(m, k) on a Go map
MapDelete(mp, k) == [x \in (DOMAIN mp) \ {k} |-> mp[x]]

\* CheckProject deleting the root's record when an entry satisfies its rule
CheckProjectClearing(lp, ovr, constraints, eff, lsat) ==
  LET pr == lp.root
  IN IF pr \in DOMAIN ovr
     THEN IF ~Matches(ovr[pr], lp.version)
          THEN [lsat EXCEPT !.badovr = MapPut(@, pr, ConstraintMismatch(ovr[pr], lp.version))]
          ELSE [lsat EXCEPT !.badovr = MapDelete(@, pr)]
     ELSE IF pr \in DOMAIN constraints /\ pr \in eff
          THEN IF ~Matches(constraints[pr], lp.version)
               THEN [lsat EXCEPT !.badconstraint =
                        MapPut(@, pr, ConstraintMismatch(constraints[pr], lp.version))]
               ELSE [lsat EXCEPT !.badconstraint = MapDelete(@, pr)]
          ELSE lsat

\* the body of the loop over l.Projects(), for one locked project lp
CheckProject(lp, ovr, constraints, eff, lsat) ==
  LET pr == lp.root
  IN IF pr \in DOMAIN ovr
     THEN IF ~Matches(ovr[pr], lp.version)
          THEN [lsat EXCEPT !.badovr = MapPut(@, pr, ConstraintMismatch(ovr[pr], lp.version))]
          ELSE lsat
     ELSE IF pr \in DOMAIN constraints /\ pr \in eff /\ ~Matches(constraints[pr], lp.version)
          THEN [lsat EXCEPT !.badconstraint =
                   MapPut(@, pr, ConstraintMismatch(constraints[pr], lp.version))]
          ELSE lsat

\* for _, lp := range l.Projects() { ... }: a slice, visited in list order
RECURSIVE CheckProjects(_, _, _, _, _, _)
CheckProjects(projects, i, ovr, constraints, eff, lsat) ==
  IF i > Len(projects) THEN lsat
  ELSE CheckProjects(projects, i + 1, ovr, constraints, eff,
                     CheckProject(projects[i], ovr, constraints, eff, lsat))

Returned(ls) == [status |-> "returned", ls |-> ls]

\* a method call on the nil manifest panics: the call does not return, and ls
\* holds no result (the field is filled only to keep the record's shape)
Panicked == [status |-> "panic", ls |-> NoLockResult]

NotCalled == [status |-> "none", ls |-> NoLockResult]

\* req, then ininputs: the flattened reach list united with req
Required(mf, reach) == reach \cup (IF ~mf.isnil THEN mf.required ELSE {})

\* The outcomes of one call, one for every way the maps can be iterated.
LockSatisfiesInputs(lk, mf, reach) ==
  IF lk.isnil THEN {Returned(NoLockResult)}
  ELSE
    LET ininputs == Required(mf, reach)
        inlock == Elems(lk.inputImports)
    IN UNION {
         LET d1 == DiffInputs(o1, 1, inlock, EmptyMap)
         IN UNION {
              LET pkgDiff == DiffLock(o2, 1, ininputs, d1.pkgDiff)
              IN UNION {
                   LET lsat == Collect(o3, 1, pkgDiff, NewLockSatisfaction)
                   IN IF mf.isnil THEN {Panicked}
                      ELSE {Returned(CheckProjects(lk.projects, 1, mf.overrides,
                                                   mf.constraints,
                                                   findEffectualConstraints(mf, o4), lsat))
                              : o4 \in Orders(ininputs)}
                   : o3 \in Orders(DOMAIN pkgDiff)}
              : o2 \in Orders(d1.inlock)}
         : o1 \in Orders(ininputs)}

----------------------------------------------------------------------------
\* The inputs and the calls.

Locks ==
  {Nil} \cup
  {[isnil |-> FALSE, projects |-> ps, inputImports |-> ii] :
     ps \in SeqUpTo([root : Roots, version : Versions], MaxProjects),
     ii \in SeqUpTo(LockPaths, MaxInputImports)}

Manifests ==
  {Nil} \cup
  {[isnil |-> FALSE, overrides |-> o, constraints |-> c, required |-> r] :
     o \in PartialMaps(OverrideRoots, Constraints),
     c \in PartialMaps(Roots, Constraints),
     r \in SUBSET RequiredPaths}

\* the flattened, deduplicated list of non-standard-library imports that
\* rpt.ToReachMap(true, true, false, ig).FlattenFn(paths.IsStandardImportPath)
\* yields for the manifest's ignore rules
ReachLists == SUBSET ReachPaths

Init ==
  /\ l \in Locks
  /\ m \in Manifests
  /\ rpt \in ReachLists
  /\ ret = NotCalled
  /\ prev = NotCalled

\* LockSatisfiesInputs(l, m, rpt)
Call ==
  /\ ret.status = "none"
  /\ ret' \in LockSatisfiesInputs(l, m, rpt)
  /\ UNCHANGED <<l, m, rpt, prev>>

\* the caller keeps the outcome and calls again with the same arguments
CallAgain ==
  /\ ret.status # "none"
  /\ prev.status = "none"
  /\ prev' = ret
  /\ ret' = NotCalled
  /\ UNCHANGED <<l, m, rpt>>

Next == Call \/ CallAgain

Spec == Init /\ [][Next]_vars

----------------------------------------------------------------------------
\* Vocabulary of the properties.

\* the call returned a result
HasResult == ret.status = "returned"

\* import path imp is under root r on a path-segment boundary
Under(r, imp) == imp = r \/ HasPrefix(imp, r \o <<"/">>)

\* required = reachable imports united with RequiredPackages
RequiredNow == rpt \cup (IF m.isnil THEN {} ELSE m.required)

\* recorded = the lock's InputImports as a set
Recorded == {l.inputImports[i] : i \in DOMAIN l.inputImports}

NoDuplicates(s) == \A i, j \in DOMAIN s : s[i] = s[j] => i = j

\* the positions of root r in the lock's project list
EntriesOf(r) == {i \in DOMAIN l.projects : l.projects[i].root = r}

UniqueRoots == \A i, j \in DOMAIN l.projects :
                  l.projects[i].root = l.projects[j].root => i = j

\* the entries of r whose version the override of r does not match
OverrideViolations(r) ==
  {i \in EntriesOf(r) :
     r \in DOMAIN m.overrides /\ ~Matches(m.overrides[r], l.projects[i].version)}

\* r is the longest declared root that is a raw prefix of some required import
LongestDeclaredPrefix(r) ==
  \E imp \in RequiredNow :
     /\ HasPrefix(imp, r)
     /\ \A r2 \in DOMAIN m.constraints : HasPrefix(imp, r2) => Len(r2) <= Len(r)

\* the entries of r that the constraint of r applies to and does not match
ConstraintViolations(r) ==
  {i \in EntriesOf(r) :
     /\ r \notin DOMAIN m.overrides
     /\ r \in DOMAIN m.constraints
     /\ LongestDeclaredPrefix(r)
     /\ ~Matches(m.constraints[r], l.projects[i].version)}

Last(S) == CHOOSE i \in S : \A j \in S : j <= i

----------------------------------------------------------------------------
\* C1: for every returned result, Passed() is true exactly when a lock was
\* present (nolock false) and missingPkgs, excessPkgs, badovr and
\* badconstraint are all empty.
C1_PassedIff ==
  HasResult =>
    (Passed(ret.ls) <=>
       /\ ~l.isnil
       /\ ~ret.ls.nolock
       /\ ret.ls.missingPkgs = <<>>
       /\ ret.ls.excessPkgs = <<>>
       /\ DOMAIN ret.ls.badovr = {}
       /\ DOMAIN ret.ls.badconstraint = {})

\* a lock with projects and recorded imports passes
C1_Witness ==
  /\ HasResult
  /\ Passed(ret.ls)
  /\ l.projects # <<>>
  /\ l.inputImports # <<>>
  /\ DOMAIN m.constraints # {}

\* C2: a locked project's root with an entry in both Overrides and
\* DependencyConstraints is never recorded in badconstraint, whatever the
\* override and the constraint say of the version; no root is in both badovr
\* and badconstraint.
C2_OverrideShadows ==
  (HasResult /\ ~l.isnil) =>
    /\ \A i \in DOMAIN l.projects :
         LET r == l.projects[i].root
         IN (r \in DOMAIN m.overrides /\ r \in DOMAIN m.constraints)
               => r \notin DOMAIN ret.ls.badconstraint
    /\ \A r \in Roots :
         ~(r \in DOMAIN ret.ls.badovr /\ r \in DOMAIN ret.ls.badconstraint)

\* a root with a matching override and an effectual constraint that does not
\* match the locked version
C2_Witness ==
  /\ HasResult /\ ~l.isnil
  /\ \E i \in DOMAIN l.projects :
       LET r == l.projects[i].root
           v == l.projects[i].version
       IN /\ r \in DOMAIN m.overrides /\ r \in DOMAIN m.constraints
          /\ Matches(m.overrides[r], v)
          /\ ~Matches(m.constraints[r], v)
          /\ \E imp \in RequiredNow : Under(r, imp)

\* C3: a root with a DependencyConstraints entry and no required import under
\* it on a path-segment boundary never appears in badconstraint, also when a
\* required import merely shares the root as a raw string prefix.
C3_UnreachedNeverBad ==
  (HasResult /\ ~l.isnil) =>
    \A r \in DOMAIN m.constraints :
       (~\E imp \in RequiredNow : Under(r, imp))
          => r \notin DOMAIN ret.ls.badconstraint

\* C4: with a lock and a nil manifest the call completes, badovr and
\* badconstraint are empty and missing/excess are the difference between the
\* reachable imports and InputImports.
C4_NilManifest ==
  (~l.isnil /\ m.isnil /\ ret.status # "none") =>
    /\ ret.status = "returned"
    /\ DOMAIN ret.ls.badovr = {}
    /\ DOMAIN ret.ls.badconstraint = {}
    /\ Elems(ret.ls.missingPkgs) = rpt \ Recorded
    /\ Elems(ret.ls.excessPkgs) = Recorded \ rpt

\* C5: with a lock, MissingImports() is exactly required minus recorded and
\* ExcessImports() exactly recorded minus required, each path listed once;
\* no path is in both.
C5_SymmetricDifference ==
  (HasResult /\ ~l.isnil) =>
    /\ Elems(MissingImports(ret.ls)) = RequiredNow \ Recorded
    /\ Elems(ExcessImports(ret.ls)) = Recorded \ RequiredNow
    /\ NoDuplicates(MissingImports(ret.ls))
    /\ NoDuplicates(ExcessImports(ret.ls))
    /\ Elems(MissingImports(ret.ls)) \cap Elems(ExcessImports(ret.ls)) = {}

\* InputImports holds a path twice, a path is both reachable and required,
\* and both outputs are non-empty
C5_Witness ==
  /\ HasResult /\ ~l.isnil
  /\ ~NoDuplicates(l.inputImports)
  /\ rpt \cap m.required # {}
  /\ MissingImports(ret.ls) # <<>>
  /\ ExcessImports(ret.ls) # <<>>

\* C6: without a lock the call returns the no-lock flag with missingPkgs,
\* excessPkgs, badovr and badconstraint empty, for every manifest and tree,
\* and Passed() is false.
C6_NoLock ==
  (l.isnil /\ ret.status # "none") =>
    /\ ret.status = "returned"
    /\ ret.ls.nolock
    /\ ret.ls.missingPkgs = <<>>
    /\ ret.ls.excessPkgs = <<>>
    /\ DOMAIN ret.ls.badovr = {}
    /\ DOMAIN ret.ls.badconstraint = {}
    /\ ~Passed(ret.ls)

\* no lock and no manifest, with imports in the tree
C6_Witness ==
  /\ l.isnil /\ m.isnil
  /\ rpt # {}
  /\ HasResult

\* C7 as stated: every locked project (r, v) without override, whose
\* constraint c does not match v and with a required import under r, has
\* badconstraint[r] = (c, v), whatever other roots are declared.
C7_Original ==
  (HasResult /\ ~l.isnil) =>
    \A i \in DOMAIN l.projects :
       LET r == l.projects[i].root
           v == l.projects[i].version
       IN (/\ r \notin DOMAIN m.overrides
           /\ r \in DOMAIN m.constraints
           /\ ~Matches(m.constraints[r], v)
           /\ \E imp \in RequiredNow : Under(r, imp))
          => /\ r \in DOMAIN ret.ls.badconstraint
             /\ ret.ls.badconstraint[r] = ConstraintMismatch(m.constraints[r], v)

\* C7 amended: every locked project (r, v) without override, whose constraint
\* c does not match v and with a required import under r of which no longer
\* declared root is a prefix, has badconstraint[r] = (c, v'), v' being the
\* version of the last entry of r in the lock that c does not match.
C7_LongestRootOnly ==
  (HasResult /\ ~l.isnil) =>
    \A i \in DOMAIN l.projects :
       LET r == l.projects[i].root
           v == l.projects[i].version
           bad == {j \in EntriesOf(r) : ~Matches(m.constraints[r], l.projects[j].version)}
       IN (/\ r \notin DOMAIN m.overrides
           /\ r \in DOMAIN m.constraints
           /\ ~Matches(m.constraints[r], v)
           /\ \E imp \in RequiredNow :
                 /\ Under(r, imp)
                 /\ \A r2 \in DOMAIN m.constraints :
                       HasPrefix(imp, r2) => Len(r2) <= Len(r))
          => /\ r \in DOMAIN ret.ls.badconstraint
             /\ ret.ls.badconstraint[r] =
                  ConstraintMismatch(m.constraints[r], l.projects[Last(bad)].version)

\* roots "a" and "a/b" are both declared, "a/b" is required, and the locked
\* "a/b" violates its constraint and is recorded
C7_Witness ==
  /\ HasResult /\ ~l.isnil
  /\ DOMAIN m.constraints = Roots
  /\ P_a_b \in RequiredNow
  /\ P_a_b \notin DOMAIN m.overrides
  /\ \E i \in DOMAIN l.projects :
       /\ l.projects[i].root = P_a_b
       /\ ~Matches(m.constraints[P_a_b], l.projects[i].version)
  /\ P_a_b \in DOMAIN ret.ls.badconstraint

\* C8: with unique project roots, badovr contains r exactly when the lock has
\* (r, v), Overrides has r and the override does not match v, and then
\* badovr[r] = (override, v); whether r is effectual plays no part, and an
\* override for a root outside the lock is never reported.
C8_BadOverrides ==
  (HasResult /\ ~l.isnil /\ UniqueRoots) =>
    \A r \in Roots :
       /\ r \in DOMAIN ret.ls.badovr <=> OverrideViolations(r) # {}
       /\ \A i \in OverrideViolations(r) :
            ret.ls.badovr[r] = ConstraintMismatch(m.overrides[r], l.projects[i].version)

\* a violated override of a root no required import is under is reported
C8_Witness ==
  /\ HasResult /\ ~l.isnil /\ UniqueRoots
  /\ \E r \in DOMAIN ret.ls.badovr :
       /\ OverrideViolations(r) # {}
       /\ ~\E imp \in RequiredNow : HasPrefix(imp, r)

\* C9: two calls on identical lock, manifest and tree return results equal as
\* sets and mappings, whatever order the maps are iterated in.
C9_SameResultTwice ==
  (prev.status # "none" /\ ret.status # "none") =>
    /\ prev.status = ret.status
    /\ prev.ls.nolock = ret.ls.nolock
    /\ Elems(prev.ls.missingPkgs) = Elems(ret.ls.missingPkgs)
    /\ Elems(prev.ls.excessPkgs) = Elems(ret.ls.excessPkgs)
    /\ prev.ls.badovr = ret.ls.badovr
    /\ prev.ls.badconstraint = ret.ls.badconstraint

\* the two calls listed the missing paths in different orders
C9_Witness ==
  /\ prev.status = "returned" /\ ret.status = "returned"
  /\ prev.ls.missingPkgs # ret.ls.missingPkgs
  /\ DOMAIN ret.ls.badconstraint # {}

\* C10: with a root r listed more than once, badovr[r] (badconstraint[r]) is
\* populated if any entry of r violates the applicable rule, a later entry
\* that satisfies it does not clear the record, and the recorded version is
\* that of the last violating entry.
C10_LastViolationKept ==
  (HasResult /\ ~l.isnil) =>
    \A r \in Roots :
       /\ r \in DOMAIN ret.ls.badovr <=> OverrideViolations(r) # {}
       /\ OverrideViolations(r) # {} =>
            ret.ls.badovr[r].V = l.projects[Last(OverrideViolations(r))].version
       /\ r \in DOMAIN ret.ls.badconstraint <=> ConstraintViolations(r) # {}
       /\ ConstraintViolations(r) # {} =>
            ret.ls.badconstraint[r].V = l.projects[Last(ConstraintViolations(r))].version

\* a root listed twice whose first entry violates the rule and whose second
\* satisfies it
C10_Witness ==
  /\ HasResult /\ ~l.isnil
  /\ \E r \in Roots :
       /\ \E i, j \in EntriesOf(r) :
            /\ i < j
            /\ i \in OverrideViolations(r) \cup ConstraintViolations(r)
            /\ j \notin OverrideViolations(r) \cup ConstraintViolations(r)
       /\ r \in DOMAIN ret.ls.badovr \cup DOMAIN ret.ls.badconstraint

====
